---- MODULE Spec2Model ----
(***************************************************************************)
(* A model of the two command-line scripts of yt_video_downloader:        *)
(*   Scripts/youtube_downloader.py       (main, download_video, ...)       *)
(*   Scripts/test_youtube_connection.py  (list_formats,                    *)
(*                                        download_with_format, __main__)  *)
(*                                                                         *)
(* Every operating-system process that runs one of the scripts (or calls   *)
(* download_video directly) is a member of Procs.  The only state shared   *)
(* between processes is the output directory on the filesystem.            *)
(*                                                                         *)
(* Text is modelled as a sequence of pieces: a literal chunk of an         *)
(* f-string is one piece, an interpolated quality string contributes its   *)
(* characters one piece each, so that slicing (quality[:-1]) is computed   *)
(* and not assumed.                                                        *)
(***************************************************************************)
EXTENDS Naturals, Sequences, FiniteSets

VARIABLES
    entry,      \* per process: how it was started (main, call, script1, off)
    pc,         \* per process: the statement it is about to execute
    args,       \* per process: the argument namespace / call arguments
    dirExists,  \* shared: the output directory exists on the filesystem
    sawDir,     \* per process: what os.path.exists(output_path) returned
    has_ffmpeg, \* per process: the value check_ffmpeg() returned
    ydl_opts,   \* per process: the options dictionary built so far
    info,       \* per process: the value extract_info returned
    calls,      \* per process: the calls made into yt_dlp, in order
    out,        \* per process: what was printed, in order
    result,     \* per process: the outcome of download_video / list_formats
    exitCode    \* per process: <<>> while running, <<n>> once exited with n

vars == <<entry, pc, args, dirExists, sawDir, has_ffmpeg, ydl_opts, info,
          calls, out, result, exitCode>>

Procs == {"A", "B"}

\* The longest list of format descriptors the library returns in the model.
MaxFormats == 3

-----------------------------------------------------------------------------
(* Strings of the program *)

Digits == {"0", "1", "2", "3", "4", "5", "6", "7", "8", "9"}

DigitVal(c) ==
    CASE c = "0" -> 0 [] c = "1" -> 1 [] c = "2" -> 2 [] c = "3" -> 3
      [] c = "4" -> 4 [] c = "5" -> 5 [] c = "6" -> 6 [] c = "7" -> 7
      [] c = "8" -> 8 [] c = "9" -> 9

Best == <<"b", "e", "s", "t">>
Worst == <<"w", "o", "r", "s", "t">>

\* choices of -q/--quality, the tiers that are neither best nor worst
ResolutionTiers ==
    { <<"1", "4", "4", "p">>, <<"2", "4", "0", "p">>, <<"3", "6", "0", "p">>,
      <<"4", "8", "0", "p">>, <<"7", "2", "0", "p">>,
      <<"1", "0", "8", "0", "p">>, <<"1", "4", "4", "0", "p">>,
      <<"2", "1", "6", "0", "p">> }

\* choices of -q/--quality
QualityChoices == {Best, Worst} \cup ResolutionTiers

\* choices of -f/--format
FormatChoices ==
    {"mp4", "webm", "flv", "ogg", "mkv", "avi", "mp3", "aac", "flac", "m4a", "wav"}

\* the codecs the audio-extraction directive passes through unchanged
AudioCodecs == {"mp3", "aac", "flac", "m4a", "opus", "vorbis", "wav"}

\* the default of -o/--output and of download_video's output_path
DefaultOutput == "./downloads"

-----------------------------------------------------------------------------
(* download_video, lines 95-134: the option mapping *)

\* variant of DropLast: the tier string used whole, its 'p' not cut off
DropLastUnsliced(s) == s

\* quality[:-1]
DropLast(s) == SubSeq(s, 1, Len(s) - 1)

\* f'{output_path}/%(title)s.%(ext)s'
OutTmpl(output_path) == <<output_path, "/%(title)s.%(ext)s">>

\* variant of PreferredCodec: the requested format passed on without the mp3 default
PreferredCodecRaw(format) == format

\* the codec of the FFmpegExtractAudio directive
PreferredCodec(format) == IF format \in AudioCodecs THEN format ELSE "mp3"

\* format_filter of the video path
FormatFilter(format) ==
    IF format = "mp4"
    THEN <<"bestvideo[ext=mp4]+bestaudio[ext=m4a]/best[ext=mp4]/best">>
    ELSE <<"bestvideo+bestaudio/best">>

\* ydl_opts['format'] of the video path
VideoSelector(quality, format) ==
    IF quality = Best THEN FormatFilter(format)
    ELSE IF quality = Worst THEN <<"worst">>
    ELSE FormatFilter(format) \o <<"[height<=">> \o DropLast(quality) \o <<"]">>

\* ydl_opts['format']
Selector(quality, format, audio_only) ==
    IF audio_only THEN <<"bestaudio/best">> ELSE VideoSelector(quality, format)

\* variant of Postprocessors: the directive attached without looking at the
\* transcoder or at the format
PostprocessorsAlways(format, audio_only, ffmpeg) ==
    IF audio_only
    THEN << [key |-> "FFmpegExtractAudio", preferredcodec |-> PreferredCodec(format)] >>
    ELSE << [key |-> "FFmpegVideoConvertor", preferedformat |-> format] >>

\* ydl_opts['postprocessors'], the empty sequence when the key is not set
Postprocessors(format, audio_only, ffmpeg) ==
    IF audio_only
    THEN IF ffmpeg
         THEN << [key |-> "FFmpegExtractAudio",
                   preferredcodec |-> PreferredCodec(format)] >>
         ELSE << >>
    ELSE IF format # "mp4" /\ ffmpeg
         THEN << [key |-> "FFmpegVideoConvertor", preferedformat |-> format] >>
         ELSE << >>

\* what lines 101-134 print
Msg(kind, label, arg) == [kind |-> kind, label |-> label, arg |-> arg]

MapperWarnings(format, audio_only, ffmpeg) ==
    IF audio_only
    THEN IF ffmpeg THEN << >>
         ELSE << Msg("warning", "original audio format", "") >>
    ELSE IF format # "mp4" /\ ~ffmpeg
         THEN << Msg("warning", "Cannot convert", format) >>
         ELSE << >>

\* the dictionary as it stands at line 135
BuildOpts(output_path, quality, format, audio_only, ffmpeg) ==
    [ outtmpl        |-> OutTmpl(output_path),
      quiet          |-> TRUE,
      format         |-> Selector(quality, format, audio_only),
      postprocessors |-> Postprocessors(format, audio_only, ffmpeg) ]

-----------------------------------------------------------------------------
(* What the wrapped library and the user can answer *)

\* a URL given on the command line or typed at a prompt; <<>> is the empty string
Url == <<"U">>

\* what the user can type at input(): nothing, blanks, or text between blanks
TypedUrls == { << >>, <<" ">>, <<" ", "U", " ">> }
TypedFormatIds == { << >>, <<" ">>, <<"22">>, <<" ", "137">> }

\* str.strip()
RECURSIVE LStrip(_)
LStrip(s) == IF s # << >> /\ Head(s) = " " THEN LStrip(Tail(s)) ELSE s

RECURSIVE RStrip(_)
RStrip(s) ==
    IF s # << >> /\ s[Len(s)] = " " THEN RStrip(SubSeq(s, 1, Len(s) - 1)) ELSE s

Strip(s) == RStrip(LStrip(s))

\* the exceptions yt_dlp raises, by class; each class with its base classes
LibErrorClasses == {"DownloadError", "ExtractorError", "GeoRestrictedError", "ValueError"}

Bases(cls) ==
    CASE cls = "DownloadError"      -> {"DownloadError", "YoutubeDLError", "Exception"}
      [] cls = "ExtractorError"     -> {"ExtractorError", "YoutubeDLError", "Exception"}
      [] cls = "GeoRestrictedError" -> {"GeoRestrictedError", "ExtractorError",
                                        "YoutubeDLError", "Exception"}
      [] OTHER                      -> {cls, "Exception"}

IsInstance(cls, base) == base \in Bases(cls)

\* the ids the library gives the descriptors of one listing, by position
FormatIdPool == <<"18", "22", "137", "140", "251", "313">>

\* the 'height' entry of a descriptor: key absent, None, or a number of lines
HeightEntries ==
    { [has_height |-> FALSE, height |-> << >>],
      [has_height |-> TRUE,  height |-> << >>],
      [has_height |-> TRUE,  height |-> <<360>>],
      [has_height |-> TRUE,  height |-> <<720>>] }

Descriptor(i, h) ==
    [format_id |-> FormatIdPool[i], has_height |-> h.has_height, height |-> h.height]

\* the lists of format descriptors info['formats'] can hold
FormatLists ==
    UNION { { [i \in 1..n |-> Descriptor(i, f[i])] : f \in [1..n -> HeightEntries] } :
            n \in 0..MaxFormats }

\* the info dictionaries extract_info returns to download_video
VideoInfos == { [kind |-> "video", entries |-> 0], [kind |-> "playlist", entries |-> 2] }

NoInfo == [kind |-> "unset"]

-----------------------------------------------------------------------------
(* main, line 200: sorted(formats, key=lambda x: x.get('height', 0)) *)

\* x.get('height', 0): the default applies only when the key is absent
SortKey(d) == IF d.has_height THEN d.height ELSE <<0>>

\* None < n, n < None and None < None raise TypeError; sorting two or more
\* elements compares each of them at least once
SortRaises(s) == Len(s) >= 2 /\ \E i \in 1..Len(s) : SortKey(s[i]) = << >>

RECURSIVE InsertByKey(_, _)
InsertByKey(s, d) ==
    IF s = << >> THEN <<d>>
    ELSE IF SortKey(s[Len(s)])[1] <= SortKey(d)[1] THEN Append(s, d)
    ELSE Append(InsertByKey(SubSeq(s, 1, Len(s) - 1), d), s[Len(s)])

\* the stable ascending sort of a list whose keys are all numbers
RECURSIVE Sorted(_)
Sorted(s) ==
    IF s = << >> THEN << >>
    ELSE InsertByKey(Sorted(SubSeq(s, 1, Len(s) - 1)), s[Len(s)])

-----------------------------------------------------------------------------
(* Bookkeeping shared by the actions *)

\* one call into yt_dlp: the entry point, the options of the YoutubeDL object,
\* whether it may download, and how it ended ("ok", "nothing", "missing", or
\* the class of the exception it raised)
Call(fn, opts, download, outcome) ==
    [fn |-> fn, opts |-> opts, download |-> download, outcome |-> outcome]

\* a process ends: sys.exit(n), falling off the end of the script (0), or an
\* exception nobody catches (the interpreter prints the traceback and exits 1)
Exit(p, n) ==
    /\ exitCode' = [exitCode EXCEPT ![p] = <<n>>]
    /\ pc' = [pc EXCEPT ![p] = "exited"]

\* an exception leaves download_video / download_with_format uncaught
Propagate(p) ==
    /\ result' = [result EXCEPT ![p] = "raised"]
    /\ IF entry[p] = "call"
       THEN /\ pc' = [pc EXCEPT ![p] = "done"]
            /\ UNCHANGED exitCode
       ELSE Exit(p, 1)

\* download_video returns value v to its caller
Return(p, v) ==
    /\ result' = [result EXCEPT ![p] = v]
    /\ pc' = [pc EXCEPT ![p] = IF entry[p] = "call" THEN "done" ELSE "m_after"]
    /\ UNCHANGED exitCode

\* variant of HandlerLabel: a single clause, except Exception
HandlerLabelGeneric(cls) == "Unexpected Error"

\* download_video, lines 159-164: the except clauses, tried in order
HandlerLabel(cls) ==
    IF IsInstance(cls, "DownloadError") THEN "Download Error"
    ELSE IF IsInstance(cls, "ExtractorError") THEN "Extractor Error"
    ELSE "Unexpected Error"

\* what the chosen clause prints
HandlerMsg(cls) ==
    Msg("error", HandlerLabel(cls),
        IF HandlerLabel(cls) = "Unexpected Error" THEN cls ELSE "")

-----------------------------------------------------------------------------
(* youtube_downloader.py: main *)

\* line 188: parser.parse_args(); argparse exits with status 2 on a value
\* outside the choices of -q or -f
MainParse(p) ==
    /\ pc[p] = "m_parse"
    /\ IF args[p].quality \in QualityChoices /\ args[p].format \in FormatChoices
       THEN /\ pc' = [pc EXCEPT ![p] = "m_url"]
            /\ UNCHANGED <<exitCode, out>>
       ELSE /\ out' = [out EXCEPT ![p] = Append(@, Msg("usage", "invalid choice", ""))]
            /\ Exit(p, 2)
    /\ UNCHANGED <<entry, args, dirExists, sawDir, has_ffmpeg, ydl_opts, info,
                   calls, result>>

\* variant of AfterUrl: the list-formats flag not looked at
AfterUrlAlwaysDownload(a) == "dv_exists"

\* line 196: which way main goes once it has a URL
AfterUrl(a) == IF a.list_formats THEN "m_list" ELSE "dv_exists"

\* lines 190-194: the URL of the command line, else the stripped answer
MainUrl(p) ==
    /\ pc[p] = "m_url"
    /\ IF args[p].url # << >>
       THEN /\ pc' = [pc EXCEPT ![p] = AfterUrl(args[p])]
            /\ UNCHANGED <<args, out, exitCode>>
       ELSE \E typed \in TypedUrls :
              /\ args' = [args EXCEPT ![p].url = Strip(typed)]
              /\ IF Strip(typed) = << >>
                 THEN /\ out' = [out EXCEPT ![p] =
                                   Append(@, Msg("error", "No URL provided", ""))]
                      /\ Exit(p, 1)
                 ELSE /\ pc' = [pc EXCEPT ![p] = AfterUrl(args[p])]
                      /\ UNCHANGED <<out, exitCode>>
    /\ UNCHANGED <<entry, dirExists, sawDir, has_ffmpeg, ydl_opts, info, calls, result>>

\* lines 197-198 and get_available_formats (61-65): one extract_info with
\* download=False; it raises, or returns None, or a dictionary without
\* 'formats', or a dictionary with a list of descriptors
ListOutcomes ==
    { [kind |-> "raise", cls |-> c, formats |-> << >>] : c \in LibErrorClasses }
    \cup { [kind |-> "none", cls |-> "AttributeError", formats |-> << >>],
           [kind |-> "nokey", cls |-> "", formats |-> << >>] }
    \cup { [kind |-> "formats", cls |-> "", formats |-> f] : f \in FormatLists }

MainList(p) ==
    /\ pc[p] = "m_list"
    /\ \E o \in ListOutcomes :
         /\ calls' = [calls EXCEPT ![p] =
                        Append(@, Call("extract_info", [quiet |-> TRUE], FALSE,
                                       IF o.kind = "raise" THEN o.cls ELSE "ok"))]
         /\ IF o.kind \in {"raise", "none"}
            THEN /\ out' = [out EXCEPT ![p] =
                              Append(@, Msg("error", "Error listing formats", o.cls))]
                 /\ Exit(p, 1)
                 /\ UNCHANGED info
            ELSE /\ info' = [info EXCEPT ![p] = [kind |-> "formats", formats |-> o.formats]]
                 /\ pc' = [pc EXCEPT ![p] = "m_print"]
                 /\ UNCHANGED <<out, exitCode>>
    /\ UNCHANGED <<entry, args, dirExists, sawDir, has_ffmpeg, ydl_opts, result>>

\* the lines the loop of lines 200-204 prints for an already sorted list
FormatLines(s) == [i \in 1..Len(s) |-> Msg("format", "ID", s[i].format_id)]

\* lines 199-208: the heading, then the sort; a TypeError of the sort is caught
\* by the except clause of line 206
MainPrint(p) ==
    /\ pc[p] = "m_print"
    /\ IF SortRaises(info[p].formats)
       THEN /\ out' = [out EXCEPT ![p] =
                         @ \o << Msg("plain", "Available Formats:", ""),
                                 Msg("error", "Error listing formats", "TypeError") >>]
            /\ Exit(p, 1)
       ELSE /\ out' = [out EXCEPT ![p] =
                         @ \o << Msg("plain", "Available Formats:", "") >>
                           \o FormatLines(Sorted(info[p].formats))]
            /\ Exit(p, 0)
    /\ UNCHANGED <<entry, args, dirExists, sawDir, has_ffmpeg, ydl_opts, info,
                   calls, result>>

\* variant of AfterStatus: the return value of download_video not looked at
AfterStatusZero(success) == 0

\* lines 218-219: the exit status after download_video returned
AfterStatus(success) == IF success = "True" THEN 0 ELSE 1

MainAfter(p) ==
    /\ pc[p] = "m_after"
    /\ Exit(p, AfterStatus(result[p]))
    /\ UNCHANGED <<entry, args, dirExists, sawDir, has_ffmpeg, ydl_opts, info,
                   calls, out, result>>

-----------------------------------------------------------------------------
(* youtube_downloader.py: download_video *)

\* line 87: os.path.exists(output_path)
DvExists(p) ==
    /\ pc[p] = "dv_exists"
    /\ sawDir' = [sawDir EXCEPT ![p] = dirExists]
    /\ pc' = [pc EXCEPT ![p] = IF dirExists THEN "dv_options" ELSE "dv_makedirs"]
    /\ UNCHANGED <<entry, args, dirExists, has_ffmpeg, ydl_opts, info, calls, out,
                   result, exitCode>>

\* variant of DvMakeDirs: os.makedirs(output_path, exist_ok=True)
DvMakeDirsExistOk(p) ==
    /\ pc[p] = "dv_makedirs"
    /\ dirExists' = TRUE
    /\ pc' = [pc EXCEPT ![p] = "dv_options"]
    /\ UNCHANGED <<entry, args, sawDir, has_ffmpeg, ydl_opts, info, calls, out,
                   result, exitCode>>

\* variant of DvMakeDirs: the directory is never created
DvMakeDirsForgotten(p) ==
    /\ pc[p] = "dv_makedirs"
    /\ pc' = [pc EXCEPT ![p] = "dv_options"]
    /\ UNCHANGED <<entry, args, dirExists, sawDir, has_ffmpeg, ydl_opts, info, calls,
                   out, result, exitCode>>

\* line 88: os.makedirs(output_path) raises FileExistsError when the directory
\* has appeared since line 87; the call is outside the try block of line 136
DvMakeDirs(p) ==
    /\ pc[p] = "dv_makedirs"
    /\ IF dirExists
       THEN /\ Propagate(p)
            /\ UNCHANGED dirExists
       ELSE /\ dirExists' = TRUE
            /\ pc' = [pc EXCEPT ![p] = "dv_options"]
            /\ UNCHANGED <<result, exitCode>>
    /\ UNCHANGED <<entry, args, sawDir, has_ffmpeg, ydl_opts, info, calls, out>>

\* lines 90-93: what is printed when check_ffmpeg() returned False
FfmpegWarnings(ffmpeg) ==
    IF ffmpeg THEN << >>
    ELSE << Msg("warning", "FFmpeg not found", ""),
            Msg("warning", "install FFmpeg", "") >>

\* lines 90-134: check_ffmpeg (53-59) probes the transcoder through the
\* library and never raises; then the options dictionary is built
DvOptions(p) ==
    /\ pc[p] = "dv_options"
    /\ \E ffmpeg \in BOOLEAN :
         /\ calls' = [calls EXCEPT ![p] =
                        Append(@, Call("check_version", [quiet |-> TRUE], FALSE,
                                       IF ffmpeg THEN "ok" ELSE "missing"))]
         /\ has_ffmpeg' = [has_ffmpeg EXCEPT ![p] = ffmpeg]
         /\ ydl_opts' = [ydl_opts EXCEPT ![p] =
                           BuildOpts(args[p].output, args[p].quality, args[p].format,
                                     args[p].audio_only, ffmpeg)]
         /\ out' = [out EXCEPT ![p] =
                      @ \o FfmpegWarnings(ffmpeg)
                        \o MapperWarnings(args[p].format, args[p].audio_only, ffmpeg)]
    /\ pc' = [pc EXCEPT ![p] = "dv_extract"]
    /\ UNCHANGED <<entry, args, dirExists, sawDir, info, result, exitCode>>

\* what ydl.extract_info(url, download=False) of line 139 can do: raise, return
\* nothing (None or an empty dictionary), or return the metadata
ExtractOutcomes ==
    { [kind |-> "raise", cls |-> c, info |-> NoInfo] : c \in LibErrorClasses }
    \cup { [kind |-> "nothing", cls |-> "", info |-> NoInfo] }
    \cup { [kind |-> "info", cls |-> "", info |-> i] : i \in VideoInfos }

\* lines 144-150: the summary printed before the download
InfoLines(i) ==
    << Msg("info", "Title", ""), Msg("info", "Duration", ""),
       Msg("info", "Quality", ""), Msg("info", "Requested Format", "") >>
    \o (IF i.kind = "playlist" THEN << Msg("info", "Videos in playlist", "") >>
        ELSE << >>)

\* lines 136-151 (and 159-166 when the call raises): the dry extraction
DvExtract(p) ==
    /\ pc[p] = "dv_extract"
    /\ \E o \in ExtractOutcomes :
       /\ calls' = [calls EXCEPT ![p] =
                      Append(@, Call("extract_info", ydl_opts[p], FALSE,
                                     CASE o.kind = "raise" -> o.cls
                                       [] o.kind = "nothing" -> "nothing"
                                       [] OTHER -> "ok"))]
       /\ CASE o.kind = "raise" ->
                /\ out' = [out EXCEPT ![p] =
                             @ \o << Msg("info", "Downloading", ""), HandlerMsg(o.cls) >>]
                /\ Return(p, "False")
                /\ UNCHANGED info
           [] o.kind = "nothing" ->
                /\ out' = [out EXCEPT ![p] =
                             @ \o << Msg("info", "Downloading", ""),
                                     Msg("error", "Could not extract video information", "") >>]
                /\ Return(p, "False")
                /\ UNCHANGED info
           [] o.kind = "info" ->
                /\ out' = [out EXCEPT ![p] =
                             @ \o << Msg("info", "Downloading", "") >> \o InfoLines(o.info)]
                /\ info' = [info EXCEPT ![p] = o.info]
                /\ pc' = [pc EXCEPT ![p] = "dv_download"]
                /\ UNCHANGED <<result, exitCode>>
    /\ UNCHANGED <<entry, args, dirExists, sawDir, has_ffmpeg, ydl_opts>>

\* what ydl.download([url]) can do: complete, or raise
DownloadOutcomes ==
    { [kind |-> "ok", cls |-> ""] }
    \cup { [kind |-> "raise", cls |-> c] : c \in LibErrorClasses }

\* lines 152-157 (and 159-166 when the call raises): the download
DvDownload(p) ==
    /\ pc[p] = "dv_download"
    /\ \E o \in DownloadOutcomes :
         /\ calls' = [calls EXCEPT ![p] =
                        Append(@, Call("download", ydl_opts[p], TRUE,
                                       IF o.kind = "ok" THEN "ok" ELSE o.cls))]
         /\ IF o.kind = "ok"
            THEN /\ out' = [out EXCEPT ![p] =
                              @ \o << Msg("plain", "Starting download...", ""),
                                      Msg("success", "Download complete!", ""),
                                      Msg("info", "Saved to", "") >>]
                 /\ Return(p, "True")
            ELSE /\ out' = [out EXCEPT ![p] =
                              @ \o << Msg("plain", "Starting download...", ""),
                                      HandlerMsg(o.cls) >>]
                 /\ Return(p, "False")
    /\ UNCHANGED <<entry, args, dirExists, sawDir, has_ffmpeg, ydl_opts, info>>

-----------------------------------------------------------------------------
(* test_youtube_connection.py *)

\* lines 42-46: the URL is argv[1], else the stripped answer (empty or not)
S1Url(p) ==
    /\ pc[p] = "s_url"
    /\ IF args[p].url # << >>
       THEN UNCHANGED <<args, out>>
       ELSE \E typed \in TypedUrls :
              /\ args' = [args EXCEPT ![p].url = Strip(typed)]
              /\ out' = [out EXCEPT ![p] =
                           Append(@, Msg("plain", "Please provide a YouTube URL", ""))]
    /\ pc' = [pc EXCEPT ![p] = "s_list"]
    /\ UNCHANGED <<entry, dirExists, sawDir, has_ffmpeg, ydl_opts, info, calls,
                   result, exitCode>>

\* line 49 and list_formats (5-19): ydl.download with 'listformats' set only
\* prints the table; any exception is caught and becomes False, after which
\* line 57 prints and the script ends
S1ListOpts == [listformats |-> TRUE, quiet |-> FALSE]

S1List(p) ==
    /\ pc[p] = "s_list"
    /\ \E o \in DownloadOutcomes :
         /\ calls' = [calls EXCEPT ![p] =
                        Append(@, Call("download", S1ListOpts, FALSE,
                                       IF o.kind = "ok" THEN "ok" ELSE o.cls))]
         /\ IF o.kind = "ok"
            THEN /\ out' = [out EXCEPT ![p] = Append(@, Msg("plain", "Listing available formats", ""))]
                 /\ result' = [result EXCEPT ![p] = "True"]
                 /\ pc' = [pc EXCEPT ![p] = "s_prompt"]
                 /\ UNCHANGED exitCode
            ELSE /\ out' = [out EXCEPT ![p] =
                              @ \o << Msg("plain", "Listing available formats", ""),
                                      Msg("plain", "Error listing formats", o.cls),
                                      Msg("plain", "Failed to list formats. Exiting.", "") >>]
                 /\ result' = [result EXCEPT ![p] = "False"]
                 /\ Exit(p, 0)
    /\ UNCHANGED <<entry, args, dirExists, sawDir, has_ffmpeg, ydl_opts, info>>

\* lines 50-55: the format_id is the stripped answer; an empty one ends the run
S1Prompt(p) ==
    /\ pc[p] = "s_prompt"
    /\ \E typed \in TypedFormatIds :
         /\ args' = [args EXCEPT ![p].format_id = Strip(typed)]
         /\ IF Strip(typed) # << >>
            THEN /\ pc' = [pc EXCEPT ![p] = "s_exists"]
                 /\ UNCHANGED <<out, exitCode>>
            ELSE /\ out' = [out EXCEPT ![p] =
                              Append(@, Msg("plain", "No format selected. Exiting.", ""))]
                 /\ Exit(p, 0)
    /\ UNCHANGED <<entry, dirExists, sawDir, has_ffmpeg, ydl_opts, info, calls, result>>

\* download_with_format, line 23: os.path.exists(output_path)
S1Exists(p) ==
    /\ pc[p] = "s_exists"
    /\ sawDir' = [sawDir EXCEPT ![p] = dirExists]
    /\ pc' = [pc EXCEPT ![p] = IF dirExists THEN "s_download" ELSE "s_makedirs"]
    /\ UNCHANGED <<entry, args, dirExists, has_ffmpeg, ydl_opts, info, calls, out,
                   result, exitCode>>

\* download_with_format, line 24: os.makedirs(output_path), outside the try
S1MakeDirs(p) ==
    /\ pc[p] = "s_makedirs"
    /\ IF dirExists
       THEN /\ Propagate(p)
            /\ UNCHANGED dirExists
       ELSE /\ dirExists' = TRUE
            /\ pc' = [pc EXCEPT ![p] = "s_download"]
            /\ UNCHANGED <<result, exitCode>>
    /\ UNCHANGED <<entry, args, sawDir, has_ffmpeg, ydl_opts, info, calls, out>>

\* variant of S1Opts: a fixed format instead of the entered one
S1OptsFixedFormat(format_id, output_path) ==
    [format |-> <<"22">>, outtmpl |-> OutTmpl(output_path)]

\* download_with_format, lines 26-29: the options of the download
S1Opts(format_id, output_path) ==
    [format |-> format_id, outtmpl |-> OutTmpl(output_path)]

\* download_with_format, lines 31-39; the script ends after it either way
S1Download(p) ==
    /\ pc[p] = "s_download"
    /\ ydl_opts' = [ydl_opts EXCEPT ![p] = S1Opts(args[p].format_id, DefaultOutput)]
    /\ \E o \in DownloadOutcomes :
         /\ calls' = [calls EXCEPT ![p] =
                        Append(@, Call("download", S1Opts(args[p].format_id, DefaultOutput),
                                       TRUE, IF o.kind = "ok" THEN "ok" ELSE o.cls))]
         /\ out' = [out EXCEPT ![p] =
                      @ \o << Msg("plain", "Downloading format", ""),
                              IF o.kind = "ok" THEN Msg("plain", "Download complete!", "")
                              ELSE Msg("plain", "Download error", o.cls) >>]
         /\ result' = [result EXCEPT ![p] = IF o.kind = "ok" THEN "True" ELSE "False"]
    /\ Exit(p, 0)
    /\ UNCHANGED <<entry, args, dirExists, sawDir, has_ffmpeg, info>>

-----------------------------------------------------------------------------
(* The filesystem outside the modelled processes *)

\* another invocation of either script creates the output directory
OtherInvocationCreatesDir ==
    /\ ~dirExists
    /\ dirExists' = TRUE
    /\ UNCHANGED <<entry, pc, args, sawDir, has_ffmpeg, ydl_opts, info, calls, out,
                   result, exitCode>>

-----------------------------------------------------------------------------
(* Specifications *)

Arguments(url, quality, format, audio_only, list_formats) ==
    [ url |-> url, output |-> DefaultOutput, quality |-> quality, format |-> format,
      audio_only |-> audio_only, list_formats |-> list_formats, format_id |-> << >> ]

\* what a command line of youtube_downloader.py can hold: nothing is checked
\* before parse_args, so values outside the choices occur
MainCommandLines ==
    { Arguments(u, q, f, a, l) :
        u \in {<< >>, Url}, q \in QualityChoices \cup { <<"4", "k">> },
        f \in FormatChoices \cup {"opus", "vorbis"}, a \in BOOLEAN, l \in BOOLEAN }

\* the arguments of a direct call of download_video(url, ...)
DirectCalls ==
    { Arguments(Url, q, f, a, FALSE) :
        q \in QualityChoices, f \in FormatChoices \cup {"opus", "vorbis"}, a \in BOOLEAN }

\* the command lines of test_youtube_connection.py
Script1CommandLines ==
    { Arguments(u, Best, "mp4", FALSE, FALSE) : u \in {<< >>, Url} }

Idle == Arguments(<< >>, Best, "mp4", FALSE, FALSE)

StartPc(e) ==
    CASE e = "main" -> "m_parse" [] e = "call" -> "dv_exists"
      [] e = "script1" -> "s_url" [] OTHER -> "off"

InitLocals ==
    /\ sawDir = [p \in Procs |-> FALSE]
    /\ has_ffmpeg = [p \in Procs |-> FALSE]
    /\ ydl_opts = [p \in Procs |-> [format |-> << >>, postprocessors |-> << >>]]
    /\ info = [p \in Procs |-> NoInfo]
    /\ calls = [p \in Procs |-> << >>]
    /\ out = [p \in Procs |-> << >>]
    /\ result = [p \in Procs |-> "none"]
    /\ exitCode = [p \in Procs |-> << >>]

\* one process, started in any of the three ways; other invocations show only
\* through the directory they create
Init ==
    /\ \E e \in {"main", "call", "script1"} :
         /\ entry = [p \in Procs |-> IF p = "A" THEN e ELSE "off"]
         /\ pc = [p \in Procs |-> IF p = "A" THEN StartPc(e) ELSE "off"]
         /\ \E a \in (CASE e = "main" -> MainCommandLines
                        [] e = "call" -> DirectCalls
                        [] OTHER -> Script1CommandLines) :
              args = [p \in Procs |-> IF p = "A" THEN a ELSE Idle]
    /\ dirExists \in BOOLEAN
    /\ InitLocals

Step(p) ==
    \/ MainParse(p) \/ MainUrl(p) \/ MainList(p) \/ MainPrint(p) \/ MainAfter(p)
    \/ DvExists(p) \/ DvMakeDirs(p) \/ DvOptions(p) \/ DvExtract(p) \/ DvDownload(p)
    \/ S1Url(p) \/ S1List(p) \/ S1Prompt(p) \/ S1Exists(p) \/ S1MakeDirs(p)
    \/ S1Download(p)

Next == (\E p \in Procs : Step(p)) \/ OtherInvocationCreatesDir

Spec == Init /\ [][Next]_vars

\* two concurrent invocations of download_video on the same output directory
InitRace ==
    /\ entry = [p \in Procs |-> "call"]
    /\ pc = [p \in Procs |-> "dv_exists"]
    /\ \E f \in {"mp4", "webm"}, a \in BOOLEAN :
         args = [p \in Procs |-> Arguments(Url, Best, f, a, FALSE)]
    /\ dirExists \in BOOLEAN
    /\ InitLocals

StepRace(p) ==
    DvExists(p) \/ DvMakeDirs(p) \/ DvOptions(p) \/ DvExtract(p) \/ DvDownload(p)

NextRace == \E p \in Procs : StepRace(p)

SpecRace == InitRace /\ [][NextRace]_vars

-----------------------------------------------------------------------------
(* Reading the state *)

\* download_video of process p has built its options (line 135 reached)
DvBuilt(p) == entry[p] \in {"main", "call"} /\ ydl_opts[p].format # << >>

\* the number a string of digits denotes
RECURSIVE Value(_)
Value(ds) ==
    IF ds = << >> THEN 0
    ELSE Value(SubSeq(ds, 1, Len(ds) - 1)) * 10 + DigitVal(ds[Len(ds)])

\* the longest prefix of digits of a string
RECURSIVE NumericPrefix(_)
NumericPrefix(q) ==
    IF q # << >> /\ Head(q) \in Digits
    THEN <<Head(q)>> \o NumericPrefix(Tail(q))
    ELSE << >>

\* the numbers n for which the selector holds a filter [height<=n]
HeightLimits(sel) ==
    { Value(SubSeq(sel, ij[1] + 1, ij[2] - 1)) :
        ij \in { x \in (1..Len(sel)) \X (1..Len(sel)) :
                   /\ x[1] + 1 < x[2]
                   /\ sel[x[1]] = "[height<="
                   /\ sel[x[2]] = "]"
                   /\ \A k \in (x[1] + 1)..(x[2] - 1) : sel[k] \in Digits } }

Printed(p, kind, label) ==
    \E i \in 1..Len(out[p]) : out[p][i].kind = kind /\ out[p][i].label = label

-----------------------------------------------------------------------------
(* Claims on the option mapping *)

\* C1 as stated: for every resolution tier, and for every format, audio_only
\* value and transcoder availability, the selector holds a maximum-height
\* filter whose number is the numeric prefix of the tier.
C1_HeightForEveryRequest ==
    \A p \in Procs :
        (DvBuilt(p) /\ args[p].quality \in ResolutionTiers)
        => Value(NumericPrefix(args[p].quality)) \in HeightLimits(ydl_opts[p].format)

\* C1 amended: on the video path (audio_only false), for every resolution tier,
\* format and transcoder availability, the selector holds a maximum-height
\* filter whose number is the numeric prefix of the tier, and it holds no other
\* height filter; on the audio-only path the selector holds no height filter.
C1_HeightOnVideoPath ==
    \A p \in Procs :
        (DvBuilt(p) /\ args[p].quality \in ResolutionTiers)
        => HeightLimits(ydl_opts[p].format) =
             IF args[p].audio_only THEN {}
             ELSE { Value(NumericPrefix(args[p].quality)) }

C1_Witness ==
    \E p \in Procs :
        /\ DvBuilt(p)
        /\ args[p].quality = <<"7", "2", "0", "p">>
        /\ args[p].format = "mp4"
        /\ ~args[p].audio_only
        /\ ydl_opts[p].format =
             << "bestvideo[ext=mp4]+bestaudio[ext=m4a]/best[ext=mp4]/best",
                "[height<=", "7", "2", "0", "]" >>
        /\ HeightLimits(ydl_opts[p].format) = {720}
        /\ ydl_opts[p].postprocessors = << >>

\* C2: on the video path a container-conversion directive targeting the
\* requested format is attached exactly when the format is not mp4 and the
\* transcoder is available; with mp4 none is attached; with another format and
\* no transcoder none is attached and the cannot-convert warning is printed.
C2_ConversionDirective ==
    \A p \in Procs :
        (DvBuilt(p) /\ ~args[p].audio_only)
        => /\ (args[p].format # "mp4" /\ has_ffmpeg[p])
                => ydl_opts[p].postprocessors =
                     << [key |-> "FFmpegVideoConvertor",
                         preferedformat |-> args[p].format] >>
           /\ (args[p].format = "mp4" \/ ~has_ffmpeg[p])
                => ydl_opts[p].postprocessors = << >>
           /\ (args[p].format # "mp4" /\ ~has_ffmpeg[p])
                => Printed(p, "warning", "Cannot convert")

C2_Witness ==
    \E p \in Procs :
        /\ DvBuilt(p) /\ ~args[p].audio_only
        /\ args[p].format = "webm" /\ ~has_ffmpeg[p]
        /\ ydl_opts[p].postprocessors = << >>
        /\ Printed(p, "warning", "Cannot convert")

\* C3: on the audio-only path the selector is exactly bestaudio/best; an
\* audio-extraction directive is attached exactly when the transcoder is
\* available; its codec is the requested format when that is one of mp3, aac,
\* flac, m4a, opus, vorbis, wav, and mp3 otherwise.
C3_AudioOnly ==
    \A p \in Procs :
        (DvBuilt(p) /\ args[p].audio_only)
        => /\ ydl_opts[p].format = <<"bestaudio/best">>
           /\ ~has_ffmpeg[p] => ydl_opts[p].postprocessors = << >>
           /\ has_ffmpeg[p]
                => ydl_opts[p].postprocessors =
                     << [key |-> "FFmpegExtractAudio",
                         preferredcodec |->
                           IF args[p].format \in
                                {"mp3", "aac", "flac", "m4a", "opus", "vorbis", "wav"}
                           THEN args[p].format ELSE "mp3"] >>

C3_Witness ==
    \E p \in Procs :
        /\ DvBuilt(p) /\ args[p].audio_only /\ has_ffmpeg[p]
        /\ args[p].format = "flac"
        /\ ydl_opts[p].format = <<"bestaudio/best">>
        /\ ydl_opts[p].postprocessors =
             << [key |-> "FFmpegExtractAudio", preferredcodec |-> "flac"] >>

-----------------------------------------------------------------------------
(* Claims on main and on download_video's error handling *)

Exited(p) == pc[p] = "exited"

\* the command line of process p passes parse_args
Accepted(p) == args[p].quality \in QualityChoices /\ args[p].format \in FormatChoices

\* the failure paths of main: no URL, a failed listing, download_video
\* returning False, and an exception that escapes download_video
FailurePath(p) ==
    \/ Printed(p, "error", "No URL provided")
    \/ Printed(p, "error", "Error listing formats")
    \/ result[p] \in {"False", "raised"}

C4_Paths(p) ==
    /\ Printed(p, "error", "No URL provided") =>
         (args[p].url = << >> /\ calls[p] = << >> /\ exitCode[p] = <<1>>)
    /\ (args[p].url = << >> /\ Accepted(p)) => Printed(p, "error", "No URL provided")
    /\ Printed(p, "error", "Error listing formats") => exitCode[p] = <<1>>
    /\ result[p] = "False" => exitCode[p] = <<1>>
    /\ result[p] = "True" => exitCode[p] = <<0>>
    /\ (args[p].list_formats /\ calls[p] # << >>
          /\ ~Printed(p, "error", "Error listing formats")) => exitCode[p] = <<0>>
    /\ exitCode[p] = <<1>> <=> FailurePath(p)

\* C4 as stated: every run of main ends with exit code 0 or 1, 1 on every
\* failure path and 0 otherwise.
C4_ExitZeroOrOne ==
    \A p \in Procs :
        (entry[p] = "main" /\ Exited(p))
        => /\ exitCode[p] \in {<<0>>, <<1>>}
           /\ C4_Paths(p)

\* C4 amended: a run of main whose command line parse_args rejects (a quality
\* or format outside the choices) ends with exit code 2 before any prompt or
\* library call; every other run ends with exit code 0 or 1, 1 on every
\* failure path (no URL and an empty answer, with no library call made; a
\* failed listing; download_video returning False or raising) and 0 otherwise.
C4_ExitCodes ==
    \A p \in Procs :
        (entry[p] = "main" /\ Exited(p))
        => IF Accepted(p)
           THEN exitCode[p] \in {<<0>>, <<1>>} /\ C4_Paths(p)
           ELSE exitCode[p] = <<2>> /\ calls[p] = << >> /\ result[p] = "none"

C4_Witness ==
    \E p \in Procs :
        /\ entry[p] = "main" /\ Exited(p) /\ Accepted(p)
        /\ result[p] = "False"
        /\ exitCode[p] = <<1>>

\* the calls download_video made into the library that can fail
DvCalls(p) ==
    IF entry[p] \in {"main", "call"}
    THEN { i \in 1..Len(calls[p]) :
             calls[p][i].fn \in {"extract_info", "download"}
             /\ ~(entry[p] = "main" /\ args[p].list_formats) }
    ELSE {}

Raised(c) == c.outcome \notin {"ok", "nothing", "missing"}

\* the label each kind of failure is to be reported under
KindLabel(cls) ==
    CASE cls = "DownloadError" -> "Download Error"
      [] cls \in {"ExtractorError", "GeoRestrictedError"} -> "Extractor Error"
      [] OTHER -> "Unexpected Error"

\* C5: every exception the library raises during the dry extraction or the
\* download is caught inside download_video, printed under the label of its
\* kind (the unexpected ones with the type name) and turned into False; none
\* propagates; True is returned only when the download call completed.
C5_LibraryFailuresCaught ==
    \A p \in Procs :
        /\ \A i \in DvCalls(p) :
             Raised(calls[p][i])
             => /\ result[p] = "False"
                /\ i = Len(calls[p])
                /\ \E k \in 1..Len(out[p]) :
                     /\ out[p][k].kind = "error"
                     /\ out[p][k].label = KindLabel(calls[p][i].outcome)
                     /\ out[p][k].label = "Unexpected Error"
                          => out[p][k].arg = calls[p][i].outcome
                /\ \A k \in 1..Len(out[p]) :
                     out[p][k].kind = "error"
                     => out[p][k].label = KindLabel(calls[p][i].outcome)
        /\ (entry[p] \in {"main", "call"} /\ result[p] = "raised") => DvCalls(p) = {}
        /\ (entry[p] \in {"main", "call"} /\ result[p] = "True")
             => /\ calls[p] # << >>
                /\ calls[p][Len(calls[p])].fn = "download"
                /\ calls[p][Len(calls[p])].outcome = "ok"
                /\ \A i \in DvCalls(p) : ~Raised(calls[p][i])

C5_Witness ==
    \E p \in Procs :
        /\ entry[p] = "main" /\ Exited(p)
        /\ Len(calls[p]) = 3
        /\ calls[p][3].fn = "download"
        /\ calls[p][3].outcome = "GeoRestrictedError"
        /\ result[p] = "False"
        /\ Printed(p, "error", "Extractor Error")

\* C7: with the list-formats flag main never calls download_video: no download
\* is started, the transcoder is not probed, the directory step is not run;
\* the only library call is one extract_info with download disabled, made on
\* every run that got a URL; the run ends with 0 or 1.
C7_ListShortCircuits ==
    \A p \in Procs :
        (entry[p] = "main" /\ args[p].list_formats)
        => /\ pc[p] \in {"m_parse", "m_url", "m_list", "m_print", "exited"}
           /\ result[p] = "none"
           /\ ydl_opts[p].format = << >>
           /\ Len(calls[p]) <= 1
           /\ \A i \in 1..Len(calls[p]) :
                calls[p][i].fn = "extract_info" /\ ~calls[p][i].download
           /\ (Exited(p) /\ Accepted(p) /\ args[p].url # << >>)
                => (Len(calls[p]) = 1 /\ exitCode[p] \in {<<0>>, <<1>>})

C7_Witness ==
    \E p \in Procs :
        /\ entry[p] = "main" /\ args[p].list_formats /\ Exited(p)
        /\ Len(calls[p]) = 1
        /\ exitCode[p] = <<0>>
        /\ Printed(p, "format", "ID")

-----------------------------------------------------------------------------
(* Claim on the format listing *)

\* the height a descriptor counts for: zero when it has no height value, the
\* key being absent or holding None
ListedHeight(d) == IF d.has_height /\ d.height # << >> THEN d.height[1] ELSE 0

\* the format lines process p printed, in order
FormatLinesPrinted(p) == SelectSeq(out[p], LAMBDA m : m.kind = "format")

\* the descriptor of a listing that carries a given id
DescriptorOf(fs, id) == CHOOSE d \in {fs[i] : i \in 1..Len(fs)} : d.format_id = id

\* C6: with the list-formats flag, when the library returns a list of
\* descriptors main prints exactly one line per descriptor, in ascending order
\* of height with a missing height (absent or None) counted as zero, and
\* exits 0; when the extraction fails it prints no format line and exits 1.
C6_ListingSorted ==
    \A p \in Procs :
        (entry[p] = "main" /\ args[p].list_formats /\ Exited(p) /\ calls[p] # << >>)
        => IF info[p].kind = "formats"
           THEN LET fs == info[p].formats
                    ln == FormatLinesPrinted(p)
                IN  /\ exitCode[p] = <<0>>
                    /\ Len(ln) = Len(fs)
                    /\ {ln[i].arg : i \in 1..Len(ln)} = {fs[i].format_id : i \in 1..Len(fs)}
                    /\ \A i, j \in 1..Len(ln) :
                         i < j => ListedHeight(DescriptorOf(fs, ln[i].arg))
                                    <= ListedHeight(DescriptorOf(fs, ln[j].arg))
           ELSE exitCode[p] = <<1>> /\ FormatLinesPrinted(p) = << >>

-----------------------------------------------------------------------------
(* Claims on the order of steps *)

IsListing(c) == c.fn = "download" /\ ~c.download
IsRealDownload(c) == c.fn = "download" /\ c.download

CountCalls(p, Test(_)) == Cardinality({ i \in 1..Len(calls[p]) : Test(calls[p][i]) })

\* C8: script 1 lists the formats first, exactly once, before any prompt for a
\* format_id; a download is started only after the listing succeeded and a
\* non-empty format_id was entered; it requests exactly that format_id with
\* output under ./downloads; at most one download is started; after a failed
\* listing or an empty format_id none is.
C8_Script1Order ==
    \A p \in Procs :
        entry[p] = "script1"
        => /\ calls[p] # << >> => IsListing(calls[p][1])
           /\ CountCalls(p, IsListing) <= 1
           /\ pc[p] \notin {"s_url", "s_list"} => CountCalls(p, IsListing) = 1
           /\ args[p].format_id # << >> => CountCalls(p, IsListing) = 1
           /\ CountCalls(p, IsRealDownload) <= 1
           /\ \A i \in 1..Len(calls[p]) :
                IsRealDownload(calls[p][i])
                => /\ i = 2
                   /\ calls[p][1].outcome = "ok"
                   /\ args[p].format_id # << >>
                   /\ calls[p][i].opts.format = args[p].format_id
                   /\ calls[p][i].opts.outtmpl = <<"./downloads", "/%(title)s.%(ext)s">>
           /\ (Exited(p) /\ (calls[p][1].outcome # "ok" \/ args[p].format_id = << >>))
                => CountCalls(p, IsRealDownload) = 0
           /\ (Exited(p) /\ calls[p][1].outcome = "ok" /\ args[p].format_id # << >>
                 /\ result[p] # "raised")
                => CountCalls(p, IsRealDownload) = 1

C8_Witness ==
    \E p \in Procs :
        /\ entry[p] = "script1" /\ Exited(p)
        /\ Len(calls[p]) = 2
        /\ IsListing(calls[p][1])
        /\ IsRealDownload(calls[p][2])
        /\ calls[p][2].opts.format = <<"137">>

IsExtract(c) == c.fn = "extract_info"
IsProbe(c) == c.fn = "check_version"

\* process p runs download_video (main without the list-formats flag, or a
\* direct call)
RunsDownloadVideo(p) ==
    \/ entry[p] = "call"
    \/ entry[p] = "main" /\ ~args[p].list_formats

\* C9: within one call of download_video the directory is ensured to exist
\* before any library call (an existing one is left alone without error);
\* then one dry extraction (download disabled) is made; the download is
\* started at most once and only after the extraction returned information;
\* when the extraction raises or returns nothing no download is started and
\* False is returned.  Nothing is tried twice.
C9_StepOrder ==
    \A p \in Procs :
        RunsDownloadVideo(p)
        => /\ calls[p] # << >> => dirExists
           /\ sawDir[p] => result[p] # "raised"
           /\ CountCalls(p, IsExtract) <= 1
           /\ CountCalls(p, IsRealDownload) <= 1
           /\ CountCalls(p, IsProbe) <= 1
           /\ \A i \in 1..Len(calls[p]) :
                /\ IsProbe(calls[p][i]) => i = 1
                /\ IsExtract(calls[p][i]) => (i = 2 /\ ~calls[p][i].download)
                /\ IsRealDownload(calls[p][i])
                     => /\ i = 3
                        /\ IsExtract(calls[p][2])
                        /\ calls[p][2].outcome = "ok"
                        /\ info[p] \in VideoInfos
           /\ result[p] \in {"True", "False"} => CountCalls(p, IsExtract) = 1
           /\ (Len(calls[p]) >= 2 /\ calls[p][2].outcome # "ok")
                => (Len(calls[p]) = 2 /\ result[p] = "False")

C9_Witness ==
    \E p \in Procs :
        /\ RunsDownloadVideo(p)
        /\ ~sawDir[p] /\ dirExists
        /\ Len(calls[p]) = 2
        /\ calls[p][2].outcome = "nothing"
        /\ result[p] = "False"

-----------------------------------------------------------------------------
(* Claim on concurrent invocations, under SpecRace *)

\* process p found the directory absent and has executed os.makedirs
Attempted(p) == pc[p] \notin {"dv_exists", "dv_makedirs"} /\ ~sawDir[p]

\* C10: the directory step is a check-then-create without a lock: when two
\* concurrent invocations both found the directory absent and both tried to
\* create it, the second creation failed; that failure is not turned into
\* False: it leaves download_video as an exception, before the invocation
\* probed the transcoder, extracted or downloaded anything.
C10_CheckThenCreateRace ==
    /\ \A p, q \in Procs :
         (p # q /\ Attempted(p) /\ Attempted(q))
         => (result[p] = "raised") # (result[q] = "raised")
    /\ \A p \in Procs :
         result[p] = "raised"
         => /\ Attempted(p)
            /\ pc[p] = "done"
            /\ calls[p] = << >>
            /\ \E q \in Procs \ {p} : Attempted(q) /\ result[q] # "raised"

C10_Witness ==
    \E p, q \in Procs :
        /\ p # q
        /\ Attempted(p) /\ Attempted(q)
        /\ result[p] = "raised" /\ calls[p] = << >>
        /\ result[q] = "True"

====
